---- MODULE Spec2Model ----
(***************************************************************************)
(* Model of horizont.lda.LDA (src/horizont/lda.py): collapsed Gibbs        *)
(* fitting of the count tables, the reusable random pool, and the          *)
(* per-document scorer with its sequential and process-pool paths.         *)
(*                                                                         *)
(* Floating point values are modelled as exact rationals <<n, d>>.  The    *)
(* numpy generator is modelled as a small multiplicative congruential      *)
(* generator: what matters is that it is a deterministic function of its   *)
(* state, and that seeding creates a fresh state.                          *)
(***************************************************************************)
EXTENDS Integers, Sequences, FiniteSets, TLC

\* ------------------------------------------------------------------ bounds
\* Length of the random pool (1000 in the source, scaled down).
PoolLen == 3
\* Largest n_iter a model is constructed with.
MaxIter == 2
\* Number of public calls (fit / score / transform) made on the model.
MaxCalls == 2
\* Largest number of rows of a matrix handed to score.
MaxScoreDocs == 2

\* random_state=None (the default argument of __init__ and of score).
None == -1

Models == {1, 2}

\* --------------------------------------------------------------- rationals
RECURSIVE Gcd(_, _)
Gcd(a, b) == IF b = 0 THEN a ELSE Gcd(b, a % b)

Frac(n, d) ==
    LET g == Gcd(IF n < 0 THEN 0 - n ELSE n, d)
    IN  <<n \div g, d \div g>>

RInt(n) == <<n, 1>>
RAdd(p, q) == Frac(p[1] * q[2] + q[1] * p[2], p[2] * q[2])
RMul(p, q) == Frac(p[1] * q[1], p[2] * q[2])
RDiv(p, q) == Frac(p[1] * q[2], p[2] * q[1])
RLe(p, q) == p[1] * q[2] <= q[1] * p[2]

\* Sum and product of f[i] for i in lo..hi.
RECURSIVE RSum(_, _, _)
RSum(f, lo, hi) == IF lo > hi THEN RInt(0) ELSE RAdd(f[lo], RSum(f, lo + 1, hi))

RECURSIVE RProd(_, _, _)
RProd(f, lo, hi) == IF lo > hi THEN RInt(1) ELSE RMul(f[lo], RProd(f, lo + 1, hi))

RECURSIVE ISum(_, _, _)
ISum(f, lo, hi) == IF lo > hi THEN 0 ELSE f[lo] + ISum(f, lo + 1, hi)

\* ------------------------------------------------------- random generator
\* One step of the generator's state.
RngStep(s) == (3 * s) % 31

\* numpy.random.RandomState(seed): a fresh generator determined by the seed.
RandomState(seed) == (seed % 30) + 1

\* random_state.randint(n): a draw in 0..n-1 and the generator's next state.
randint(s, n) == [val |-> RngStep(s) % n, s |-> RngStep(s)]

\* rng.rand(n): n uniform draws in [0, 1).
RECURSIVE rand(_, _)
rand(s, n) ==
    IF n = 0 THEN [val |-> <<>>, s |-> s]
    ELSE LET rest == rand(RngStep(s), n - 1)
         IN  [val |-> <<Frac(RngStep(s), 31)>> \o rest.val, s |-> rest.s]

Swap(x, i, j) == [x EXCEPT ![i] = x[j], ![j] = x[i]]

\* random_state.shuffle(x): Fisher-Yates from the last position down.
RECURSIVE ShuffleFrom(_, _, _)
ShuffleFrom(s, x, i) ==
    IF i < 2 THEN [val |-> x, s |-> s]
    ELSE LET r == randint(s, i)
         IN  ShuffleFrom(r.s, Swap(x, i, r.val + 1), i - 1)

shuffle(s, x) == ShuffleFrom(s, x, Len(x))

\* np.sort(x): an ascending copy (insertion sort).
RECURSIVE Insert(_, _)
Insert(v, x) ==
    IF x = <<>> THEN <<v>>
    ELSE IF RLe(v, Head(x)) THEN <<v>> \o x
    ELSE <<Head(x)>> \o Insert(v, Tail(x))

RECURSIVE sort(_)
sort(x) == IF x = <<>> THEN <<>> ELSE Insert(Head(x), sort(Tail(x)))

\* sklearn.utils.check_random_state(seed): None is the process-wide numpy
\* generator, an int makes a new generator seeded with it.
check_random_state(seed) ==
    IF seed = None THEN [global |-> TRUE, s |-> 0]
    ELSE [global |-> FALSE, s |-> RandomState(seed)]

\* The state a generator handle reads, and the two places a new state goes.
GenState(g, np) == IF g.global THEN np ELSE g.s
GenPut(g, s) == IF g.global THEN g ELSE [g EXCEPT !.s = s]
NpPut(g, s, np) == IF g.global THEN s ELSE np

\* ------------------------------------------------------------ token stream
Repeat(v, n) == [i \in 1..n |-> v]

\* Tokens of one row from column w on: X[d][w] copies of (w-1, d-1) each.
RECURSIVE RowTokens(_, _, _)
RowTokens(row, d, w) ==
    IF w > Len(row) THEN <<>>
    ELSE Repeat(<<w - 1, d - 1>>, row[w]) \o RowTokens(row, d, w + 1)

RECURSIVE MatrixTokens(_, _)
MatrixTokens(X, d) ==
    IF d > Len(X) THEN <<>>
    ELSE RowTokens(X[d], d, 1) \o MatrixTokens(X, d + 1)

\* horizont.utils.matrix_to_lists(X): (WS, DS), documents in row order.
matrix_to_lists(X) ==
    LET toks == MatrixTokens(X, 1)
    IN  [WS |-> [i \in 1..Len(toks) |-> toks[i][1]],
         DS |-> [i \in 1..Len(toks) |-> toks[i][2]]]

\* ------------------------------------------------------------ count tables
ZeroTables(D, W, K) ==
    [nzw |-> [k \in 0..(K - 1) |-> [w \in 0..(W - 1) |-> 0]],
     ndz |-> [d \in 0..(D - 1) |-> [k \in 0..(K - 1) |-> 0]],
     nz  |-> [k \in 0..(K - 1) |-> 0]]

\* The length of a 0-based array.
Size(f) == Cardinality(DOMAIN f)

\* A token of word w in document d gets topic z: all three tables count it.
AddTokenNoNz(t, d, w, z) ==
    [t EXCEPT !.ndz[d][z] = @ + 1, !.nzw[z][w] = @ + 1]

AddTokenTopicZero(t, d, w, z) ==
    [t EXCEPT !.ndz[d][0] = @ + 1, !.nzw[z][w] = @ + 1, !.nz[z] = @ + 1]

AddToken(t, d, w, z) ==
    [t EXCEPT !.ndz[d][z] = @ + 1, !.nzw[z][w] = @ + 1, !.nz[z] = @ + 1]

RemoveToken(t, d, w, z) ==
    [t EXCEPT !.ndz[d][z] = @ - 1, !.nzw[z][w] = @ - 1, !.nz[z] = @ - 1]

\* The loop of _initialize from token i on: a random topic per token.
RECURSIVE InitLoop(_, _, _, _, _, _, _)
InitLoop(WS, DS, K, i, s, ZS, t) ==
    IF i > Len(WS) THEN [ZS |-> ZS, t |-> t, s |-> s]
    ELSE LET r == randint(s, K)
         IN  InitLoop(WS, DS, K, i + 1, r.s, Append(ZS, r.val),
                      AddToken(t, DS[i], WS[i], r.val))

\* LDA._initialize(X, random_state), from generator state s.
initialize(X, K, s) ==
    LET l == matrix_to_lists(X)
        r == InitLoop(l.WS, l.DS, K, 1, s, <<>>,
                      ZeroTables(Len(X), Len(X[1]), K))
    IN  [WS |-> l.WS, DS |-> l.DS, ZS |-> r.ZS, t |-> r.t, s |-> r.s]

\* -------------------------------------------------------------- likelihood
\* Gamma(a + n) / Gamma(a): the rising factorial a (a+1) ... (a+n-1).
RECURSIVE Rising(_, _)
Rising(a, n) == IF n <= 0 THEN RInt(1) ELSE RMul(RAdd(a, RInt(n - 1)), Rising(a, n - 1))

\* LDA._loglikelihood: exp of log p(w|z) + log p(z).  A zero count
\* contributes the factor 1, which is the cell the source skips.
loglikelihood(t, alpha, eta) ==
    LET D == Size(t.ndz)
        K == Size(t.nz)
        W == IF K = 0 THEN 0 ELSE Size(t.nzw[0])
        nd == [d \in 0..(D - 1) |-> ISum(t.ndz[d], 0, K - 1)]
        pw == [k \in 0..(K - 1) |->
                 RDiv(RProd([w \in 0..(W - 1) |-> Rising(eta, t.nzw[k][w])], 0, W - 1),
                      Rising(RMul(eta, RInt(W)), t.nz[k]))]
        pz == [d \in 0..(D - 1) |->
                 RDiv(RProd([k \in 0..(K - 1) |-> Rising(alpha, t.ndz[d][k])], 0, K - 1),
                      Rising(RMul(alpha, RInt(K)), nd[d]))]
    IN  RMul(RProd(pw, 0, K - 1), RProd(pz, 0, D - 1))

\* ------------------------------------------------------------ Gibbs sweep
\* The smallest k whose cumulative score reaches thr (the last k otherwise).
RECURSIVE PickTopic(_, _, _, _, _)
PickTopic(score, k, K, acc, thr) ==
    IF k >= K - 1 THEN k
    ELSE IF RLe(thr, RAdd(acc, score[k])) THEN k
    ELSE PickTopic(score, k + 1, K, RAdd(acc, score[k]), thr)

\* The conditional of one token's topic given all the others.
Conditional(t, d, w, alpha, eta) ==
    LET K == Size(t.nz)
        W == Size(t.nzw[0])
    IN  [k \in 0..(K - 1) |->
           RDiv(RMul(RAdd(RInt(t.ndz[d][k]), alpha), RAdd(RInt(t.nzw[k][w]), eta)),
                RAdd(RInt(t.nz[k]), RMul(eta, RInt(W))))]

\* One token of horizont._lda._sample_topics: take the token out of the
\* tables, draw its new topic with the pool value u, put it back.
SampleOne(t, d, w, z_old, alpha, eta, u) ==
    LET t1 == RemoveToken(t, d, w, z_old)
        K == Size(t.nz)
        score == Conditional(t1, d, w, alpha, eta)
        z_new == PickTopic(score, 0, K, RInt(0), RMul(u, RSum(score, 0, K - 1)))
    IN  [z |-> z_new, t |-> AddToken(t1, d, w, z_new)]

\* ---------------------------------------------------------- document scorer
\* The probability of word w for one particle that has seen t tokens.
Predictive(pn, t, w, Phi, alpha) ==
    LET K == Size(Phi)
    IN  RDiv(RSum([k \in 0..(K - 1) |-> RMul(Phi[k][w], RAdd(RInt(pn[k]), alpha))], 0, K - 1),
             RAdd(RInt(t), RMul(alpha, RInt(K))))

\* One particle draws the token's topic with the pool value u and counts it.
Resample(pn, w, Phi, alpha, u) ==
    LET K == Size(Phi)
        score == [k \in 0..(K - 1) |-> RMul(Phi[k][w], RAdd(RInt(pn[k]), alpha))]
        z == PickTopic(score, 0, K, RInt(0), RMul(u, RSum(score, 0, K - 1)))
    IN  [pn EXCEPT ![z] = @ + 1]

RECURSIVE ResampleAll(_, _, _, _, _, _, _)
ResampleAll(pns, p, w, Phi, alpha, rands, cursor) ==
    IF p > Len(pns) THEN [pns |-> pns, cursor |-> cursor]
    ELSE ResampleAll([pns EXCEPT ![p] = Resample(pns[p], w, Phi, alpha, rands[cursor + 1])],
                     p + 1, w, Phi, alpha, rands, (cursor + 1) % Len(rands))

\* Left to right over the tokens: the mean predictive probability of each
\* token over the particles, multiplied up (the exp of the sum of logs).
RECURSIVE ScoreTokens(_, _, _, _, _, _, _, _)
ScoreTokens(WS, t, pns, cursor, acc, Phi, alpha, rands) ==
    IF t > Len(WS) THEN acc
    ELSE LET w == WS[t]
             R == Len(pns)
             mean == RDiv(RSum([p \in 1..R |-> Predictive(pns[p], t - 1, w, Phi, alpha)], 1, R),
                          RInt(R))
             r == ResampleAll(pns, 1, w, Phi, alpha, rands, cursor)
         IN  ScoreTokens(WS, t + 1, r.pns, r.cursor, RMul(acc, mean), Phi, alpha, rands)

\* horizont._lda._score_doc(x, Phi, alpha, R, rands).  It raises on a row
\* that is no count vector over the vocabulary (a negative count, a word
\* outside Phi's columns); the exception carries no document index.
score_doc(x, Phi, alpha, R, rands) ==
    LET K == Size(Phi)
        W == Size(Phi[0])
        WS == matrix_to_lists(<<x>>).WS
    IN  IF \E w \in 1..Len(x) : x[w] < 0 \/ (x[w] > 0 /\ w > W)
        THEN [ok |-> FALSE, val |-> RInt(0)]
        ELSE [ok |-> TRUE,
              val |-> ScoreTokens(WS, 1, [p \in 1..R |-> [k \in 0..(K - 1) |-> 0]], 0,
                                  RInt(1), Phi, alpha, rands)]

\* ------------------------------------------------------------------ state
VARIABLES
    np_rand,   \* state of numpy's process-wide generator
    lda,       \* lda[m]: the attributes of model object m
    frame,     \* frame[m]: the running _fit call of model m (pc, X, it, i, cursor)
    log,       \* log[m]: what _print_status reported, in order
    ncalls,    \* ncalls[m]: public calls started on model m
    call,      \* the running (or last) score call: its arguments and locals;
               \* id numbers it among the model's calls, entry, np0, rands0 and
               \* gen0 keep what the model, the process-wide generator, the
               \* call's pool and its generator were when its loop began
    ret        \* what the last score or transform call gave its caller

vars == <<np_rand, lda, frame, log, ncalls, call, ret>>

\* Constructor arguments and the inputs of fit and score.
SeedChoices == {None, 1}
NpSeedChoices == {5}
TopicChoices == {2}
AlphaChoices == {<<1, 2>>}
EtaChoices == {<<1, 3>>}
\* Every fit input has a token: _print_status divides by the token count.
FitInputs == { << <<1, 1>>, <<0, 1>> >>,
               << <<2, 0>>, <<1, 1>> >>,
               << <<1, 0, 1>> >> }
ScoreSeedChoices == {None, 4}
ParticleChoices == {2}
ScoreMatrices == { [V |-> 2, rows |-> <<>>],
                   [V |-> 2, rows |-> << <<1, 1>> >>],
                   [V |-> 2, rows |-> << <<0, 2>>, <<1, 1>> >>],
                   [V |-> 2, rows |-> << <<1, 0>>, <<0, 0 - 1>> >>],
                   [V |-> 2, rows |-> << <<0, 0 - 1>>, <<1, 1>> >>],
                   [V |-> 3, rows |-> << <<1, 0, 1>> >>],
                   [V |-> 3, rows |-> << <<0, 1, 0>>, <<1, 0, 1>> >>],
                   [V |-> 2, rows |-> << <<1, 0>>, <<1, 1>>, <<0, 1>> >>] }
ScoreInputs == {X \in ScoreMatrices : Len(X.rows) <= MaxScoreDocs}

NoTables == ZeroTables(0, 0, 0)

\* LDA.__init__ from generator state np: the object and the generator's
\* state afterwards.  consumed is a history flag: the pool's current
\* arrangement has been read by a sweep or a scored document.
NewLDA(n_topics, n_iter, alpha, eta, random_state, np) ==
    LET rng == check_random_state(random_state)
        r == rand(GenState(rng, np), PoolLen)
    IN  [self |-> [n_topics |-> n_topics, n_iter |-> n_iter, alpha |-> alpha,
                   eta |-> eta, random_state |-> random_state, rands |-> r.val,
                   fitted |-> FALSE, tokens |-> FALSE,
                   counts |-> NoTables, WS |-> <<>>, DS |-> <<>>, ZS |-> <<>>,
                   phi_ |-> <<>>, theta_ |-> <<>>, consumed |-> FALSE],
         np |-> NpPut(rng, r.s, np)]

IdleFrame == [pc |-> "idle", X |-> <<>>, it |-> 0, i |-> 0, cursor |-> 0, fresh |-> TRUE]

NoError == [type |-> "", doc |-> None]
NoRet == [op |-> "", kind |-> "none", error |-> NoError, val |-> <<>>]

IdleCall ==
    [pc |-> "idle", id |-> 0, m |-> 1, X |-> [V |-> 0, rows |-> <<>>], R |-> 0,
     seed |-> None, mp |-> FALSE, gen |-> check_random_state(None),
     alias |-> TRUE, rands |-> <<>>, consumed |-> FALSE, i |-> 0,
     tasks |-> <<>>, logprobs |-> <<>>,
     entry |-> <<>>, np0 |-> 0, rands0 |-> <<>>, gen0 |-> 0]

\* Two model objects constructed one after the other with the same arguments.
Init ==
    \E np0 \in NpSeedChoices, seed \in SeedChoices, K \in TopicChoices,
       n_iter \in 0..MaxIter, alpha \in AlphaChoices, eta \in EtaChoices :
        LET a == NewLDA(K, n_iter, alpha, eta, seed, np0)
            b == NewLDA(K, n_iter, alpha, eta, seed, a.np)
        IN  /\ lda = [m \in Models |-> IF m = 1 THEN a.self ELSE b.self]
            /\ np_rand = b.np
            /\ frame = [m \in Models |-> IdleFrame]
            /\ log = [m \in Models |-> <<>>]
            /\ ncalls = [m \in Models |-> 0]
            /\ call = IdleCall
            /\ ret = NoRet

\* No public call is running: the caller is single-threaded per model.
Quiet(m) == frame[m].pc = "idle" /\ call.pc = "idle"

\* -------------------------------------------------------------------- fit
\* _print_status(iter): the likelihood of the current tables and the token count.
print_status(m, iter) ==
    Append(log[m], [iter |-> iter,
                    ll |-> loglikelihood(lda[m].counts, lda[m].alpha, lda[m].eta),
                    N |-> Len(lda[m].WS)])

\* fit(X) up to the loop: _fit's generator, then _initialize.
FitStart(m, X) ==
    /\ Quiet(m)
    /\ ncalls[m] < MaxCalls
    /\ LET rng == check_random_state(lda[m].random_state)
           r == initialize(X, lda[m].n_topics, GenState(rng, np_rand))
       IN  /\ lda' = [lda EXCEPT ![m].counts = r.t, ![m].WS = r.WS, ![m].DS = r.DS,
                                 ![m].ZS = r.ZS, ![m].tokens = TRUE]
           /\ np_rand' = NpPut(rng, r.s, np_rand)
    /\ frame' = [frame EXCEPT ![m] = [pc |-> "loop", X |-> X, it |-> 0, i |-> 0,
                                      cursor |-> 0, fresh |-> TRUE]]
    /\ ncalls' = [ncalls EXCEPT ![m] = @ + 1]
    /\ UNCHANGED <<log, call, ret>>

\* The pool of _sample_topics: shuffled in place with a generator made
\* from self.random_state.
SweepPoolGlobal(self, np) ==
    LET r == shuffle(np, self.rands)
    IN  [self |-> [self EXCEPT !.rands = r.val, !.consumed = FALSE], np |-> r.s]

SweepPool(self, np) ==
    LET rng == check_random_state(self.random_state)
        r == shuffle(GenState(rng, np), self.rands)
    IN  [self |-> [self EXCEPT !.rands = r.val, !.consumed = FALSE],
         np |-> NpPut(rng, r.s, np)]

\* The head of one iteration: the status line every tenth iteration, then
\* _sample_topics up to its call into the sampler.
SweepStart(m) ==
    /\ frame[m].pc = "loop"
    /\ frame[m].it < lda[m].n_iter
    /\ log' = [log EXCEPT ![m] = IF frame[m].it % 10 = 0
                                 THEN print_status(m, frame[m].it) ELSE @]
    /\ LET r == SweepPool(lda[m], np_rand)
       IN  /\ lda' = [lda EXCEPT ![m] = [r.self EXCEPT !.consumed = TRUE]]
           /\ np_rand' = r.np
           /\ frame' = [frame EXCEPT ![m].pc = "tokens", ![m].i = 1, ![m].cursor = 0,
                                     ![m].fresh = ~r.self.consumed]
    /\ UNCHANGED <<ncalls, call, ret>>

\* One token of the sweep; the last one ends the iteration.
SampleToken(m) ==
    /\ frame[m].pc = "tokens"
    /\ LET i == frame[m].i
           N == Len(lda[m].WS)
           r == SampleOne(lda[m].counts, lda[m].DS[i], lda[m].WS[i], lda[m].ZS[i],
                          lda[m].alpha, lda[m].eta, lda[m].rands[frame[m].cursor + 1])
       IN  /\ lda' = [lda EXCEPT ![m].counts = r.t, ![m].ZS[i] = r.z]
           /\ frame' = [frame EXCEPT
                          ![m].cursor = (@ + 1) % PoolLen,
                          ![m].i = IF i = N THEN 0 ELSE i + 1,
                          ![m].pc = IF i = N THEN "loop" ELSE "tokens",
                          ![m].it = IF i = N THEN @ + 1 ELSE @]
    /\ UNCHANGED <<np_rand, log, ncalls, call, ret>>

\* Point estimates: each row of counts plus the prior, normalised.
Normalised(rows, prior) ==
    [r \in DOMAIN rows |->
       LET n == Size(rows[r])
           row == [c \in 0..(n - 1) |-> RAdd(RInt(rows[r][c]), prior)]
       IN  [c \in 0..(n - 1) |-> RDiv(row[c], RSum(row, 0, n - 1))]]

\* The end of _fit: the final status line, the point estimates, and the
\* token stream deleted.
FitEnd(m) ==
    /\ frame[m].pc = "loop"
    /\ frame[m].it = lda[m].n_iter
    /\ log' = [log EXCEPT ![m] = print_status(m, lda[m].n_iter)]
    /\ lda' = [lda EXCEPT ![m].phi_ = Normalised(lda[m].counts.nzw, lda[m].eta),
                          ![m].theta_ = Normalised(lda[m].counts.ndz, lda[m].alpha),
                          ![m].fitted = TRUE, ![m].tokens = FALSE,
                          ![m].WS = <<>>, ![m].DS = <<>>, ![m].ZS = <<>>]
    /\ frame' = [frame EXCEPT ![m].pc = "idle"]
    /\ UNCHANGED <<np_rand, ncalls, call, ret>>

Fit(m) ==
    \/ \E X \in FitInputs : FitStart(m, X)
    \/ SweepStart(m)
    \/ SampleToken(m)
    \/ FitEnd(m)

\* -------------------------------------------------------------- transform
\* LDA.transform(X): raises, whatever the model's state.
transformReturnsTheta(self, X) ==
    [ret |-> [op |-> "transform", kind |-> "ok", error |-> NoError, val |-> self.theta_],
     self |-> self]

transform(self, X) ==
    [ret |-> [op |-> "transform", kind |-> "error",
              error |-> [type |-> "NotImplementedError", doc |-> None], val |-> <<>>],
     self |-> self]

Transform(m) ==
    /\ Quiet(m)
    /\ ncalls[m] < MaxCalls
    /\ \E X \in FitInputs :
         LET r == transform(lda[m], X)
         IN  /\ ret' = r.ret
             /\ lda' = [lda EXCEPT ![m] = r.self]
    /\ ncalls' = [ncalls EXCEPT ![m] = @ + 1]
    /\ UNCHANGED <<np_rand, frame, log, call>>

\* ------------------------------------------------------------------ score
\* The head of score: the generator and the pool the call works on.  With
\* random_state=None the pool is self._rands itself; otherwise it is a
\* sorted copy, shuffled once with a generator made from the argument.
ScorePoolInPlace(self, seed, np) ==
    IF seed = None
    THEN [self |-> self, gen |-> check_random_state(self.random_state),
          alias |-> TRUE, rands |-> <<>>]
    ELSE LET g == check_random_state(seed)
             r == shuffle(GenState(g, np), sort(self.rands))
         IN  [self |-> [self EXCEPT !.rands = r.val, !.consumed = FALSE],
              gen |-> GenPut(g, r.s), alias |-> TRUE, rands |-> <<>>]

ScorePool(self, seed, np) ==
    IF seed = None
    THEN [self |-> self, gen |-> check_random_state(self.random_state),
          alias |-> TRUE, rands |-> <<>>]
    ELSE LET g == check_random_state(seed)
             r == shuffle(GenState(g, np), sort(self.rands))
         IN  [self |-> self, gen |-> GenPut(g, r.s), alias |-> FALSE, rands |-> r.val]

\* np.testing.assert_equal(V, Phi.shape[1]).
ShapeOkAlways(V, Phi) == TRUE

ShapeOk(V, Phi) == V = Size(Phi[0])

\* The pool the call shuffles and hands out, and whether its current
\* arrangement has been read before.
Live(c, self) == IF c.alias THEN self.rands ELSE c.rands
LiveConsumed(c, self) == IF c.alias THEN self.consumed ELSE c.consumed

\* The pool's current arrangement is handed to a document.
ConsumeLive(c, self) ==
    [c |-> IF c.alias THEN c ELSE [c EXCEPT !.consumed = TRUE],
     self |-> IF c.alias THEN [self EXCEPT !.consumed = TRUE] ELSE self]

\* random_state.shuffle(rands) in the loops of score.
ShuffleLive(c, self, np) ==
    LET r == shuffle(GenState(c.gen, np), Live(c, self))
    IN  [c |-> IF c.alias THEN [c EXCEPT !.gen = GenPut(c.gen, r.s)]
               ELSE [c EXCEPT !.gen = GenPut(c.gen, r.s), !.rands = r.val,
                              !.consumed = FALSE],
         self |-> IF c.alias THEN [self EXCEPT !.rands = r.val, !.consumed = FALSE]
                  ELSE self,
         np |-> NpPut(c.gen, r.s, np)]

ScoreError(type) ==
    [op |-> "score", kind |-> "error", error |-> [type |-> type, doc |-> None],
     val |-> <<>>]

\* score(X, R, random_state) up to the loops, with JOBLIB_MULTIPROCESSING
\* read as mp.  An unfitted model has no phi_.
ScoreStart(m, X, R, seed, mp) ==
    /\ Quiet(m)
    /\ ncalls[m] < MaxCalls
    /\ LET p == ScorePool(lda[m], seed, np_rand)
           N == Len(X.rows)
           c == [IdleCall EXCEPT !.id = ncalls[m] + 1, !.m = m, !.X = X, !.R = R, !.seed = seed, !.mp = mp,
                                 !.gen = p.gen, !.alias = p.alias, !.rands = p.rands,
                                 !.i = 1, !.entry = lda[m], !.np0 = np_rand,
                                 !.rands0 = Live(p, p.self),
                                 !.gen0 = GenState(p.gen, np_rand)]
       IN  /\ lda' = [lda EXCEPT ![m] = p.self]
           /\ IF ~lda[m].fitted
              THEN /\ call' = c
                   /\ ret' = ScoreError("AttributeError")
              ELSE IF ~ShapeOk(X.V, lda[m].phi_)
              THEN /\ call' = c
                   /\ ret' = ScoreError("AssertionError")
              ELSE /\ call' = [c EXCEPT !.pc = IF ~mp THEN "seq"
                                               ELSE IF N = 0 THEN "collect" ELSE "submit"]
                   /\ ret' = NoRet
    /\ ncalls' = [ncalls EXCEPT ![m] = @ + 1]
    /\ UNCHANGED <<np_rand, frame, log>>

\* The sequential loop, one document: _score_doc on the pool itself, then
\* the shuffle.  An exception of _score_doc leaves score as it is.
ScoreSeqStep ==
    /\ call.pc = "seq"
    /\ call.i <= Len(call.X.rows)
    /\ LET m == call.m
           x == call.X.rows[call.i]
           arr == Live(call, lda[m])
           res == score_doc(x, lda[m].phi_, lda[m].alpha, call.R, arr)
           task == [x |-> x, arg |-> [ref |-> FALSE, val |-> arr], st |-> "done",
                    res |-> res, taken |-> TRUE, fresh |-> ~LiveConsumed(call, lda[m])]
           used == ConsumeLive([call EXCEPT !.tasks = Append(@, task)], lda[m])
       IN  IF ~res.ok
           THEN /\ call' = [used.c EXCEPT !.pc = "idle"]
                /\ lda' = [lda EXCEPT ![m] = used.self]
                /\ ret' = ScoreError("ValueError")
                /\ UNCHANGED np_rand
           ELSE LET sh == ShuffleLive([used.c EXCEPT !.logprobs = Append(@, res.val),
                                                     !.i = @ + 1],
                                      used.self, np_rand)
                IN  /\ call' = sh.c
                    /\ lda' = [lda EXCEPT ![m] = sh.self]
                    /\ np_rand' = sh.np
                    /\ UNCHANGED ret
    /\ UNCHANGED <<frame, log, ncalls>>

\* What ex.submit is given for rands: a copy.  A reference would be read
\* when the executor pickles the work item, which is later.
SubmitArgNoCopy(rands) == [ref |-> TRUE, val |-> rands]

SubmitArg(rands) == [ref |-> FALSE, val |-> rands]

\* The dispatch loop, one document: submit, then the shuffle.
ScoreSubmit ==
    /\ call.pc = "submit"
    /\ call.i <= Len(call.X.rows)
    /\ LET m == call.m
           N == Len(call.X.rows)
           task == [x |-> call.X.rows[call.i], arg |-> SubmitArg(Live(call, lda[m])),
                    st |-> "pending", res |-> [ok |-> FALSE, val |-> RInt(0)],
                    taken |-> FALSE, fresh |-> ~LiveConsumed(call, lda[m])]
           used == ConsumeLive([call EXCEPT !.tasks = Append(@, task)], lda[m])
           sh == ShuffleLive([used.c EXCEPT
                                !.i = IF call.i = N THEN 1 ELSE @ + 1,
                                !.pc = IF call.i = N THEN "collect" ELSE "submit"],
                             used.self, np_rand)
       IN  /\ call' = sh.c
           /\ lda' = [lda EXCEPT ![m] = sh.self]
           /\ np_rand' = sh.np
    /\ UNCHANGED <<frame, log, ncalls, ret>>

\* The executor pickles a work item for its call queue: the arguments are
\* read now.
ExecutorPickle(j) ==
    /\ call.pc \in {"submit", "collect"}
    /\ j \in 1..Len(call.tasks)
    /\ call.tasks[j].st = "pending"
    /\ call' = [call EXCEPT
                  !.tasks[j].st = "queued",
                  !.tasks[j].arg = [ref |-> FALSE,
                                    val |-> IF @.ref THEN Live(call, lda[call.m]) ELSE @.val]]
    /\ UNCHANGED <<np_rand, lda, frame, log, ncalls, ret>>

\* A worker process runs _score_doc on an item of the call queue.
WorkerRun(j) ==
    /\ call.pc \in {"submit", "collect"}
    /\ j \in 1..Len(call.tasks)
    /\ call.tasks[j].st = "queued"
    /\ call' = [call EXCEPT
                  !.tasks[j].st = "done",
                  !.tasks[j].res = score_doc(call.tasks[j].x, lda[call.m].phi_,
                                             lda[call.m].alpha, call.R,
                                             call.tasks[j].arg.val)]
    /\ UNCHANGED <<np_rand, lda, frame, log, ncalls, ret>>

\* The future whose result the collecting loop waits for next: futs in
\* list order, whatever has completed.
NextFutureCompleted(c) ==
    LET done == {j \in 1..Len(c.tasks) : c.tasks[j].st = "done" /\ ~c.tasks[j].taken}
    IN  IF done = {} THEN c.i ELSE CHOOSE j \in done : \A k \in done : k <= j

NextFuture(c) == c.i

\* The collecting loop, one future: fut.result() returns or raises.
ScoreCollect ==
    /\ call.pc = "collect"
    /\ call.i <= Len(call.X.rows)
    /\ LET j == NextFuture(call)
       IN  /\ call.tasks[j].st = "done"
           /\ ~call.tasks[j].taken
           /\ IF call.tasks[j].res.ok
              THEN /\ call' = [call EXCEPT !.logprobs = Append(@, call.tasks[j].res.val),
                                           !.tasks[j].taken = TRUE, !.i = @ + 1]
                   /\ UNCHANGED ret
              ELSE /\ call' = [call EXCEPT !.pc = "idle", !.tasks[j].taken = TRUE]
                   /\ ret' = ScoreError("ValueError")
    /\ UNCHANGED <<np_rand, lda, frame, log, ncalls>>

\* return logprobs.
ScoreReturn ==
    /\ call.pc \in {"seq", "collect"}
    /\ call.i > Len(call.X.rows)
    /\ call' = [call EXCEPT !.pc = "idle"]
    /\ ret' = [op |-> "score", kind |-> "ok", error |-> NoError, val |-> call.logprobs]
    /\ UNCHANGED <<np_rand, lda, frame, log, ncalls>>

Score(m) ==
    \/ \E X \in ScoreInputs, R \in ParticleChoices, seed \in ScoreSeedChoices,
          mp \in BOOLEAN : ScoreStart(m, X, R, seed, mp)
    \/ ScoreSeqStep
    \/ ScoreSubmit
    \/ \E j \in 1..MaxScoreDocs : ExecutorPickle(j)
    \/ \E j \in 1..MaxScoreDocs : WorkerRun(j)
    \/ ScoreCollect
    \/ ScoreReturn

\* ---------------------------------------------------------- specifications
\* One model object and its caller.
Next == Fit(1) \/ Score(1) \/ Transform(1)

Spec == Init /\ [][Next]_vars

\* Two model objects, each fitted once.
NextTwin ==
    \E m \in Models :
        \/ \E X \in FitInputs : ncalls[m] = 0 /\ FitStart(m, X)
        \/ SweepStart(m)
        \/ SampleToken(m)
        \/ FitEnd(m)

SpecTwin == Init /\ [][NextTwin]_vars

\* ------------------------------------------------------------------ properties
\* n shuffles in a row of pool x from generator state s.
RECURSIVE IterShuffle(_, _, _)
IterShuffle(x, s, n) ==
    IF n = 0 THEN [val |-> x, s |-> s]
    ELSE LET r == shuffle(s, x) IN IterShuffle(r.val, r.s, n - 1)

\* int(np.sum(X)).
RECURSIVE SumSeq(_)
SumSeq(x) == IF x = <<>> THEN 0 ELSE Head(x) + SumSeq(Tail(x))

MatrixSum(X) == SumSeq([d \in 1..Len(X) |-> SumSeq(X[d])])

TableSum(rows) == SumSeq([r \in 1..Size(rows) |-> ISum(rows[r - 1], 0, Size(rows[r - 1]) - 1)])

\* C1: after initialization and before and after every full sweep, the
\* three count tables have the same total, the number of tokens of X.
C1_Conservation ==
    \A m \in Models :
        (frame[m].pc = "loop" \/ (frame[m].pc = "idle" /\ lda[m].fitted)) =>
            LET t == lda[m].counts
                N == MatrixSum(frame[m].X)
            IN  /\ TableSum(t.nzw) = N
                /\ TableSum(t.ndz) = N
                /\ ISum(t.nz, 0, Size(t.nz) - 1) = N

\* A fit has gone through all its sweeps, at least one, and stands at the
\* loop head.
C1_Witness ==
    /\ frame[1].pc = "loop"
    /\ frame[1].it = lda[1].n_iter
    /\ frame[1].it >= 1
    /\ MatrixSum(frame[1].X) >= 3

\* C2: between single-token updates, for every topic k, nz[k], the row sum
\* of nzw[k], the column sum of ndz[.][k] and the number of tokens whose
\* topic is k are the same.
C2_PerTopic ==
    \A m \in Models :
        lda[m].tokens =>
            LET t == lda[m].counts
                D == Size(t.ndz)
                W == Size(t.nzw[0])
            IN  \A k \in 0..(lda[m].n_topics - 1) :
                    /\ t.nz[k] = ISum(t.nzw[k], 0, W - 1)
                    /\ t.nz[k] = ISum([d \in 0..(D - 1) |-> t.ndz[d][k]], 0, D - 1)
                    /\ t.nz[k] = Cardinality({i \in 1..Len(lda[m].ZS) : lda[m].ZS[i] = k})

\* A sweep is under way, some tokens resampled, and both topics are in use.
C2_Witness ==
    /\ frame[1].pc = "tokens"
    /\ frame[1].i >= 2
    /\ frame[1].it >= 1
    /\ \A k \in 0..(lda[1].n_topics - 1) : lda[1].counts.nz[k] >= 1

\* C3: two models constructed with the same seed and arguments and fitted
\* on the same matrix are in the same state at the same point of fit, and
\* report the same likelihoods in the same order.
C3_Determinism ==
    (/\ lda[1].random_state # None
     /\ lda[1].random_state = lda[2].random_state
     /\ ncalls[1] = ncalls[2]
     /\ frame[1].X = frame[2].X) =>
        /\ (frame[1] = frame[2] => lda[1] = lda[2] /\ log[1] = log[2])
        /\ \A j \in 1..Len(log[1]) : j <= Len(log[2]) => log[1][j] = log[2][j]

\* Both seeded models have finished a fit of at least one sweep on the
\* same matrix.
C3_Witness ==
    /\ lda[1].random_state # None
    /\ frame[1].X = frame[2].X
    /\ \A m \in Models : lda[m].fitted /\ frame[m].pc = "idle" /\ frame[m].it >= 1
    /\ Len(log[1]) = 2

\* The pool arrangement the sequential loop passes to document i of the
\* current call.
SeqRands(i) == IterShuffle(call.rands0, call.gen0, i - 1).val

\* What scoring row i of the call's matrix gives when handed arrangement r.
RowScore(i, r) ==
    score_doc(call.X.rows[i], call.entry.phi_, call.entry.alpha, call.R, r)

\* C4: a score call that returns gives one result per row, the result at
\* position i being that of row i, on either path and for every order in
\* which the workers finish.
C4_InputOrder ==
    (call.pc = "idle" /\ ret.op = "score" /\ ret.kind = "ok") =>
        /\ Len(ret.val) = Len(call.X.rows)
        /\ \A i \in 1..Len(call.X.rows) : ret.val[i] = RowScore(i, SeqRands(i)).val

\* A pooled call on two rows returned two different results.
C4_Witness ==
    /\ call.pc = "idle" /\ ret.op = "score" /\ ret.kind = "ok"
    /\ call.mp
    /\ Len(ret.val) >= 2
    /\ ret.val[1] # ret.val[2]

\* C5: the pool a dispatched document works on is the arrangement the
\* sequential loop passes to that document, from dispatch on and whatever
\* the dispatcher shuffles later, and so is its result.
C5_PathsAgree ==
    \A i \in 1..Len(call.tasks) :
        /\ call.tasks[i].arg.val = SeqRands(i)
        /\ call.tasks[i].st = "done" => call.tasks[i].res = RowScore(i, SeqRands(i))

\* Both documents of a pooled call are done, on different arrangements,
\* and the dispatcher's pool has moved on.
C5_Witness ==
    /\ call.mp
    /\ Len(call.tasks) >= 2
    /\ \A i \in 1..Len(call.tasks) : call.tasks[i].st = "done" /\ call.tasks[i].res.ok
    /\ call.tasks[1].arg.val # call.tasks[2].arg.val
    /\ Live(call, lda[call.m]) # call.tasks[2].arg.val

\* C6: a document whose scoring fails ends the call with a ScoringError
\* carrying that document's index, and the other documents' results reach
\* the caller.
C6_ScoringError ==
    \A i \in 1..Len(call.tasks) :
        (/\ call.pc = "idle" /\ ret.op = "score"
         /\ call.tasks[i].st = "done" /\ call.tasks[i].taken /\ ~call.tasks[i].res.ok) =>
            /\ ret.error.type = "ScoringError"
            /\ ret.error.doc = i - 1
            /\ \A j \in 1..Len(call.X.rows) :
                 (j # i /\ RowScore(j, SeqRands(j)).ok) =>
                     (j <= Len(ret.val) /\ ret.val[j] = RowScore(j, SeqRands(j)).val)

\* DimensionMismatch of the design document is the failure of numpy's assert_equal.
DimensionMismatch == ScoreError("AssertionError")

\* C7: a score call on a fitted model with a matrix whose column count is
\* not Phi's ends at once with DimensionMismatch: nothing dispatched or
\* scored, no result, the model and the generator untouched.
C7_MismatchFirst ==
    [][(/\ call'.id # call.id
        /\ lda[call'.m].fitted
        /\ call'.X.V # Size(lda[call'.m].phi_[0])) =>
            /\ ret' = DimensionMismatch
            /\ call'.pc = "idle"
            /\ call'.tasks = <<>>
            /\ call'.logprobs = <<>>
            /\ lda' = lda
            /\ np_rand' = np_rand]_vars

\* A call with an explicit seed and rows on a fitted model of another
\* vocabulary size has ended.
C7_Witness ==
    /\ call.id > 0 /\ call.pc = "idle"
    /\ call.entry.fitted
    /\ call.X.V # Size(call.entry.phi_[0])
    /\ call.seed # None
    /\ Len(call.X.rows) >= 1
    /\ ret = DimensionMismatch

\* A step that starts a public call and touches neither a fit's frame nor
\* a score call is a transform call.
TransformStep == ncalls' # ncalls /\ frame' = frame /\ call' = call

C9_ShuffledBeforeUse ==
    /\ \A m \in Models : frame[m].pc = "tokens" => frame[m].fresh
    /\ \A i \in 1..Len(call.tasks) : call.tasks[i].fresh

\* All arrangements of a pool.
Perms(x) ==
    LET n == Len(x)
    IN  {[i \in 1..n |-> x[f[i]]] : f \in {g \in [1..n -> 1..n] : \A a, b \in 1..n : a # b => g[a] # g[b]}}

\* The pool document i gets from a call with an explicit seed on a model
\* whose stored pool is arranged as q.
SeededRands(seed, q, i) ==
    LET r == shuffle(RandomState(seed), sort(q))
    IN  IterShuffle(r.val, r.s, i - 1).val

\* C10: a call with an explicit random_state leaves the stored pool alone
\* and hands document i an arrangement fixed by the seed and the pool's
\* values, however they were arranged; a call with random_state=None
\* shuffles the stored pool itself, once per document, and it stays so.
C10_PoolFrame ==
    (call.id > 0 /\ call.id = ncalls[call.m]) =>
        /\ call.seed # None =>
             /\ lda[call.m].rands = call.entry.rands
             /\ \A i \in 1..Len(call.tasks) : \A q \in Perms(call.entry.rands) :
                  call.tasks[i].arg.val = SeededRands(call.seed, q, i)
        /\ (call.seed = None /\ call.pc = "idle" /\ ret.kind = "ok") =>
             lda[call.m].rands =
                 IterShuffle(call.entry.rands, call.gen0, Len(call.X.rows)).val

\* A call with an explicit seed has scored two documents on a pool whose
\* stored arrangement is not the sorted one.
C10_Witness ==
    /\ call.id > 0 /\ call.id = ncalls[call.m]
    /\ call.seed # None
    /\ call.pc = "idle" /\ ret.kind = "ok"
    /\ Len(call.tasks) >= 2
    /\ call.entry.rands # sort(call.entry.rands)
    /\ call.tasks[1].arg.val # call.entry.rands

====
